---- MODULE Spec2Model ----
(***************************************************************************)
(* ReadmeUpdater (src/src/core/detector.ts): update(readmePath, operations) *)
(* and the text operations behind it.                                       *)
(*                                                                          *)
(* A JavaScript string is a sequence of one-character strings.  Positions   *)
(* in sequences are 1-based: a JavaScript index k is position k + 1 here,   *)
(* and the JavaScript "-1 / not found" is 0.                                *)
(***************************************************************************)
EXTENDS Integers, Sequences, FiniteSets, TLC

VARIABLES file, fileExists, pc, operations, idx, content, updatedContent,
          changes, result, calls, atCall,
          storage, index, request, contexts, disk, options, rival

vars == <<file, fileExists, pc, operations, idx, content, updatedContent,
          changes, result, calls, atCall, storage, index, request, contexts,
          disk, options, rival>>

\* what update() never assigns: the condition of the storage, and the
\* ContextRouter's index, request and answer, the AI_README.md files on
\* disk and the options of the AIReadmeScanner
routerVars == <<index, request, contexts, disk, options>>

----------------------------------------------------------------------------
(* Bounds of the checked instances *)

MaxOps == 2
MaxLines == 3
MaxBatchLines == 2
MaxDocLen == 3
MaxCalls == 2
MaxTextLen == 2
MaxDepth == 2
MaxEntries == 2

----------------------------------------------------------------------------
(* Characters and strings *)

NL == "\n"
SP == " "
HASH == "#"
DOLLAR == "$"
\* the grave accent and the apostrophe; a TLA+ string cannot hold a lone
\* grave accent, so that character is the atom named after its code point
BACKTICK == "U+0060"
APOSTROPHE == "'"

Min(S) == CHOOSE x \in S : \A y \in S : x <= y

IsWhite(c) == c \in {SP, NL}

\* s.slice(from - 1): the suffix of s that starts at position from
Drop(s, from) == SubSeq(s, from, Len(s))

\* s.indexOf(t): first position at which t occurs in s, 0 if none
IndexOf(s, t) ==
  LET hits == {p \in 1..(Len(s) - Len(t) + 1) : SubSeq(s, p, p + Len(t) - 1) = t}
  IN IF hits = {} THEN 0 ELSE Min(hits)

\* s.includes(t)
Includes(s, t) == IndexOf(s, t) # 0

\* number of positions at which t occurs in s
Occurrences(s, t) ==
  Cardinality({p \in 1..(Len(s) - Len(t) + 1) : SubSeq(s, p, p + Len(t) - 1) = t})

\* s.split('\n')
RECURSIVE Split(_)
Split(s) ==
  LET k == IndexOf(s, <<NL>>)
  IN IF k = 0 THEN <<s>> ELSE <<SubSeq(s, 1, k - 1)>> \o Split(Drop(s, k + 1))

\* lines.join('\n')
RECURSIVE Join(_)
Join(lines) ==
  IF lines = <<>> THEN <<>>
  ELSE IF Len(lines) = 1 THEN lines[1]
  ELSE lines[1] \o <<NL>> \o Join(Tail(lines))

\* s.trim()
RECURSIVE TrimStart(_)
TrimStart(s) == IF s # <<>> /\ IsWhite(s[1]) THEN TrimStart(Tail(s)) ELSE s

RECURSIVE TrimEnd(_)
TrimEnd(s) ==
  IF s # <<>> /\ IsWhite(s[Len(s)]) THEN TrimEnd(SubSeq(s, 1, Len(s) - 1)) ELSE s

Trim(s) == TrimEnd(TrimStart(s))

\* s.startsWith('#')
StartsWithHash(s) == s # <<>> /\ s[1] = HASH

\* number of '#' characters at the start of s
RECURSIVE LeadingHashes(_)
LeadingHashes(s) == IF StartsWithHash(s) THEN 1 + LeadingHashes(Tail(s)) ELSE 0

\* lines.splice(pos - 1, 0, ...items)
Splice(lines, pos, items) ==
  SubSeq(lines, 1, pos - 1) \o items \o SubSeq(lines, pos, Len(lines))

----------------------------------------------------------------------------
(* ReadmeUpdater helpers *)

\* line.match(/^(#{1,6})\s/): the length of the '#' run, 0 when no match
getSectionLevel(line) ==
  LET k == LeadingHashes(line)
  IN IF k >= 1 /\ k <= 6 /\ Len(line) > k /\ IsWhite(line[k + 1]) THEN k ELSE 0

\* findSectionIndex comparing the trimmed line with the section as given
findSectionIndexUntrimmed(lines, section) ==
  LET hits == {i \in 1..Len(lines) : Trim(lines[i]) = section}
  IN IF hits = {} THEN 0 ELSE Min(hits)

\* lines.findIndex(line => line.trim() === section.trim())
findSectionIndex(lines, section) ==
  LET hits == {i \in 1..Len(lines) : Trim(lines[i]) = Trim(section)}
  IN IF hits = {} THEN 0 ELSE Min(hits)

\* position before which insert-after splices; Len(lines) + 1 is lines.length
findSectionEnd(lines, startIndex) ==
  LET startLine == lines[startIndex]
      sectionLevel == getSectionLevel(startLine)
      ends == {i \in (startIndex + 1)..Len(lines) :
                 /\ lines[i] # <<>>
                 /\ StartsWithHash(Trim(lines[i]))
                 /\ getSectionLevel(Trim(lines[i])) <= sectionLevel}
  IN IF startLine = <<>> THEN Len(lines) + 1
     ELSE IF ends = {} THEN Len(lines) + 1
     ELSE Min(ends)

\* GetSubstitution of String.prototype.replace for a string pattern (no
\* capture groups): $$ -> $, $& -> the match, $ and a grave accent -> the
\* text before the match, $ and an apostrophe -> the text after it; every
\* other character is copied.
RECURSIVE Substitute(_, _, _, _)
Substitute(repl, matched, before, after) ==
  IF repl = <<>> THEN <<>>
  ELSE IF repl[1] = DOLLAR /\ Len(repl) >= 2 /\ repl[2] \in {DOLLAR, "&", BACKTICK, APOSTROPHE}
  THEN (CASE repl[2] = DOLLAR -> <<DOLLAR>>
          [] repl[2] = "&" -> matched
          [] repl[2] = BACKTICK -> before
          [] repl[2] = APOSTROPHE -> after)
       \o Substitute(Drop(repl, 3), matched, before, after)
  ELSE <<repl[1]>> \o Substitute(Tail(repl), matched, before, after)

\* StringReplace substituting the last occurrence
StringReplaceLast(text, searchText, replacement) ==
  LET hits == {q \in 1..(Len(text) - Len(searchText) + 1) :
                 SubSeq(text, q, q + Len(searchText) - 1) = searchText}
      p == IF hits = {} THEN 0 ELSE CHOOSE q \in hits : \A r \in hits : r <= q
  IN IF p = 0 THEN text
     ELSE LET before == SubSeq(text, 1, p - 1)
              after == Drop(text, p + Len(searchText))
          IN before \o Substitute(replacement, searchText, before, after) \o after

\* text.replace(searchText, replacement) with a string searchText: only the
\* first occurrence is substituted; text is returned as is when there is none
StringReplace(text, searchText, replacement) ==
  LET p == IndexOf(text, searchText)
  IN IF p = 0 THEN text
     ELSE LET before == SubSeq(text, 1, p - 1)
              after == Drop(text, p + Len(searchText))
          IN before \o Substitute(replacement, searchText, before, after) \o after

\* !operation.<field>: the field is undefined or the empty string
Missing(op, field) == field \notin DOMAIN op \/ op[field] = <<>>

Thrown(message) == [ok |-> FALSE, error |-> message]

Change(op, linesAdded, linesRemoved) ==
  IF "section" \in DOMAIN op
  THEN [operation |-> op.type, section |-> op.section,
        linesAdded |-> linesAdded, linesRemoved |-> linesRemoved]
  ELSE [operation |-> op.type,
        linesAdded |-> linesAdded, linesRemoved |-> linesRemoved]

Applied(updatedLines, op, linesAdded, linesRemoved) ==
  [ok |-> TRUE, content |-> Join(updatedLines),
   change |-> Change(op, linesAdded, linesRemoved)]

\* content.split('\n').length
LineCount(s) == Len(Split(s))

applyAppend(lines, op) ==
  Applied(lines \o <<<<>>, op.content>>, op, LineCount(op.content) + 1, 0)

\* applyPrepend with the separator above the content
applyPrependBelowBlank(lines, op) ==
  Applied(<<<<>>, op.content>> \o lines, op, LineCount(op.content) + 1, 0)

applyPrepend(lines, op) ==
  Applied(<<op.content, <<>>>> \o lines, op, LineCount(op.content) + 1, 0)

\* applyReplace without the comparison that detects an absent search text
applyReplaceUnchecked(lines, op) ==
  IF Missing(op, "searchText")
  THEN Thrown(<<"searchText is required for replace operation">>)
  ELSE LET originalContent == Join(lines)
           newContent == StringReplace(originalContent, op.searchText, op.content)
       IN Applied(Split(newContent), op,
                  LineCount(op.content), LineCount(op.searchText))

applyReplace(lines, op) ==
  IF Missing(op, "searchText")
  THEN Thrown(<<"searchText is required for replace operation">>)
  ELSE LET originalContent == Join(lines)
           newContent == StringReplace(originalContent, op.searchText, op.content)
       IN IF originalContent = newContent
          THEN Thrown(<<"Text not found: ">> \o op.searchText)
          ELSE Applied(Split(newContent), op,
                       LineCount(op.content), LineCount(op.searchText))

applyInsertAfter(lines, op) ==
  IF Missing(op, "section")
  THEN Thrown(<<"section is required for insert-after operation">>)
  ELSE LET sectionIndex == findSectionIndex(lines, op.section)
       IN IF sectionIndex = 0
          THEN Thrown(<<"Section not found: ">> \o op.section)
          ELSE Applied(Splice(lines, findSectionEnd(lines, sectionIndex),
                              <<<<>>, op.content>>),
                       op, LineCount(op.content) + 1, 0)

\* applyInsertBefore splicing one line below the heading
applyInsertBeforeBelow(lines, op) ==
  IF Missing(op, "section")
  THEN Thrown(<<"section is required for insert-before operation">>)
  ELSE LET sectionIndex == findSectionIndex(lines, op.section)
       IN IF sectionIndex = 0
          THEN Thrown(<<"Section not found: ">> \o op.section)
          ELSE Applied(Splice(lines, sectionIndex + 1, <<op.content, <<>>>>),
                       op, LineCount(op.content) + 1, 0)

applyInsertBefore(lines, op) ==
  IF Missing(op, "section")
  THEN Thrown(<<"section is required for insert-before operation">>)
  ELSE LET sectionIndex == findSectionIndex(lines, op.section)
       IN IF sectionIndex = 0
          THEN Thrown(<<"Section not found: ">> \o op.section)
          ELSE Applied(Splice(lines, sectionIndex, <<op.content, <<>>>>),
                       op, LineCount(op.content) + 1, 0)

\* applyOperation(content, operation): [ok |-> TRUE, content, change] when it
\* returns, [ok |-> FALSE, error] when it throws
applyOperation(text, op) ==
  LET lines == Split(text)
  IN CASE op.type = "append" -> applyAppend(lines, op)
       [] op.type = "prepend" -> applyPrepend(lines, op)
       [] op.type = "replace" -> applyReplace(lines, op)
       [] op.type = "insert-after" -> applyInsertAfter(lines, op)
       [] op.type = "insert-before" -> applyInsertBefore(lines, op)
       [] OTHER -> Thrown(<<"Unknown operation type: ", op.type>>)

----------------------------------------------------------------------------
(* update(readmePath, operations) as a state machine.  One action per       *)
(* stretch of update() between two awaits.  pc is the position of the call: *)
(* Idle (no call in progress), Pending (called, nothing read yet),          *)
(* Applying (in the for loop, idx operations applied so far), Committed     *)
(* (written, success returned), Aborted (an operation threw, failure        *)
(* returned; idx is the JavaScript index of the operation that threw).      *)

NoResult == [pending |-> TRUE]

\* no second caller of update()
NoCall == [pc |-> "Idle"]

\* the condition of the storage during a call: whether the directory that
\* holds readmePath exists, whether readFile succeeds, whether writeFile is
\* permitted
Healthy == [parentExists |-> TRUE, readable |-> TRUE, writable |-> TRUE]

\* writeFile creates or overwrites the file, never the directory above it
CanWrite == storage.parentExists /\ storage.writable

\* update() is called with the batch `operations`; atCall[k] records the
\* stored document at the moment of the k-th call
Call ==
  /\ pc = "Idle"
  /\ calls < MaxCalls
  /\ pc' = "Pending"
  /\ calls' = calls + 1
  /\ atCall' = Append(atCall, [exists |-> fileExists, text |-> file])
  /\ idx' = 0
  /\ content' = <<>>
  /\ updatedContent' = <<>>
  /\ changes' = <<>>
  /\ result' = NoResult
  /\ UNCHANGED <<storage, routerVars, rival>>
  /\ UNCHANGED <<file, fileExists, operations>>

\* let content = ''; if (existsSync(readmePath)) content = await readFile(...)
\* let updatedContent = content; const changes = []
ReadContent ==
  /\ pc = "Pending"
  /\ fileExists => storage.readable
  /\ content' = (IF fileExists THEN file ELSE <<>>)
  /\ updatedContent' = content'
  /\ changes' = <<>>
  /\ idx' = 0
  /\ pc' = "Applying"
  /\ UNCHANGED <<storage, routerVars, rival>>
  /\ UNCHANGED <<file, fileExists, operations, result, calls, atCall>>

\* ApplyNext storing each intermediate text as soon as it is produced
ApplyNextWriteThrough ==
  /\ pc = "Applying"
  /\ idx < Len(operations)
  /\ LET r == applyOperation(updatedContent, operations[idx + 1])
     IN /\ r.ok
        /\ updatedContent' = r.content
        /\ file' = r.content
        /\ changes' = Append(changes, r.change)
  /\ idx' = idx + 1
  /\ fileExists' = TRUE
  /\ UNCHANGED <<storage, routerVars, rival>>
  /\ UNCHANGED <<pc, operations, content, result, calls, atCall>>

\* ApplyNext giving every operation the text that was read
ApplyNextOnOriginal ==
  /\ pc = "Applying"
  /\ idx < Len(operations)
  /\ LET r == applyOperation(content, operations[idx + 1])
     IN /\ r.ok
        /\ updatedContent' = r.content
        /\ changes' = Append(changes, r.change)
  /\ idx' = idx + 1
  /\ UNCHANGED <<storage, routerVars, rival>>
  /\ UNCHANGED <<file, fileExists, pc, operations, content, result, calls, atCall>>

\* one iteration of the for loop whose applyOperation returns
ApplyNext ==
  /\ pc = "Applying"
  /\ idx < Len(operations)
  /\ LET r == applyOperation(updatedContent, operations[idx + 1])
     IN /\ r.ok
        /\ updatedContent' = r.content
        /\ changes' = Append(changes, r.change)
  /\ idx' = idx + 1
  /\ UNCHANGED <<storage, routerVars, rival>>
  /\ UNCHANGED <<file, fileExists, pc, operations, content, result, calls, atCall>>

\* CatchError returning a fixed message in place of the one that was thrown
CatchErrorGeneric ==
  /\ pc = "Applying"
  /\ idx < Len(operations)
  /\ LET r == applyOperation(updatedContent, operations[idx + 1])
     IN /\ ~r.ok
        /\ result' = [success |-> FALSE, error |-> <<"Update failed">>,
                      changes |-> <<>>]
  /\ pc' = "Aborted"
  /\ UNCHANGED <<storage, routerVars, rival>>
  /\ UNCHANGED <<file, fileExists, operations, idx, content, updatedContent,
                 changes, calls, atCall>>

\* one iteration of the for loop whose applyOperation throws: the catch
\* block returns the failure result
CatchError ==
  /\ pc = "Applying"
  /\ idx < Len(operations)
  /\ LET r == applyOperation(updatedContent, operations[idx + 1])
     IN /\ ~r.ok
        /\ result' = [success |-> FALSE, error |-> r.error, changes |-> <<>>]
  /\ pc' = "Aborted"
  /\ UNCHANGED <<storage, routerVars, rival>>
  /\ UNCHANGED <<file, fileExists, operations, idx, content, updatedContent,
                 changes, calls, atCall>>

\* WriteFile that leaves the stored document alone when it is no longer
\* the text that was read
WriteFileKeepsNewer ==
  /\ pc = "Applying"
  /\ idx = Len(operations)
  /\ CanWrite
  /\ file' = (IF fileExists /\ file # content THEN file ELSE updatedContent)
  /\ fileExists' = TRUE
  /\ result' = [success |-> TRUE, changes |-> changes]
  /\ pc' = "Committed"
  /\ UNCHANGED <<storage, routerVars, rival>>
  /\ UNCHANGED <<operations, idx, content, updatedContent, changes, calls, atCall>>

\* await writeFile(readmePath, updatedContent); return {success: true, changes}
WriteFile ==
  /\ pc = "Applying"
  /\ idx = Len(operations)
  /\ CanWrite
  /\ file' = updatedContent
  /\ fileExists' = TRUE
  /\ result' = [success |-> TRUE, changes |-> changes]
  /\ pc' = "Committed"
  /\ UNCHANGED <<storage, routerVars, rival>>
  /\ UNCHANGED <<operations, idx, content, updatedContent, changes, calls, atCall>>

\* the promise returned by update() settles; the caller may call again
Return ==
  /\ pc \in {"Committed", "Aborted", "Failed"}
  /\ calls < MaxCalls
  /\ pc' = "Idle"
  /\ UNCHANGED <<storage, routerVars, rival>>
  /\ UNCHANGED <<file, fileExists, operations, idx, content, updatedContent,
                 changes, result, calls, atCall>>

Next == Call \/ ReadContent \/ ApplyNext \/ CatchError \/ WriteFile \/ Return

\* the message of the error that Node's fs raises
FsError(code) ==
  CASE code = "ENOENT" -> <<"ENOENT: no such file or directory, open">>
    [] code = "EACCES" -> <<"EACCES: permission denied, open">>

\* ReadError with the readFile outside the try block: the promise of
\* update() is rejected
ReadErrorEscapes ==
  /\ pc = "Pending"
  /\ fileExists /\ ~storage.readable
  /\ pc' = "Rejected"
  /\ UNCHANGED <<storage, routerVars, rival>>
  /\ UNCHANGED <<file, fileExists, operations, idx, content, updatedContent,
                 changes, result, calls, atCall>>

\* the document exists and readFile throws: the catch block returns the
\* failure result (pc Failed: a storage failure was returned)
ReadError ==
  /\ pc = "Pending"
  /\ fileExists /\ ~storage.readable
  /\ result' = [success |-> FALSE, error |-> FsError("EACCES"), changes |-> <<>>]
  /\ pc' = "Failed"
  /\ UNCHANGED <<storage, routerVars, rival>>
  /\ UNCHANGED <<file, fileExists, operations, idx, content, updatedContent,
                 changes, calls, atCall>>

\* every operation applied and writeFile throws: the catch block returns
\* the failure result, nothing is stored
WriteError ==
  /\ pc = "Applying"
  /\ idx = Len(operations)
  /\ ~CanWrite
  /\ result' = [success |-> FALSE,
                error |-> FsError(IF storage.parentExists THEN "EACCES"
                                                          ELSE "ENOENT"),
                changes |-> <<>>]
  /\ pc' = "Failed"
  /\ UNCHANGED <<storage, routerVars, rival>>
  /\ UNCHANGED <<file, fileExists, operations, idx, content, updatedContent,
                 changes, calls, atCall>>

----------------------------------------------------------------------------
(* AIReadmeScanner (src/src/core/scanner.ts) and ContextRouter              *)
(* (src/src/core/router.ts).                                                *)
(*                                                                          *)
(* A normalised relative path is the sequence of its segments, a segment a  *)
(* sequence of characters; the project root "." is the empty sequence.      *)
(* split('/').length of a directory other than "." is then its length, and  *)
(* startsWith(dir + '/') is "dir is a proper prefix".                       *)

DOT == "."
ReadmeName == <<"R", DOT, "m">>

\* a.startsWith(b + '/'): b is a proper prefix of a
StartsWithDir(a, b) == Len(a) > Len(b) /\ SubSeq(a, 1, Len(b)) = b

\* path.dirname of a normalised relative path
dirname(path) == IF Len(path) <= 1 THEN <<>> ELSE SubSeq(path, 1, Len(path) - 1)

\* PartsOf folding a path of more than two parts into its first part
PartsOfFolded(dir) ==
  IF dir = <<>> THEN <<<<DOT>>>>
  ELSE IF Len(dir) > 2 THEN SubSeq(dir, 1, 1)
  ELSE dir

\* dir.split('/'): the root "." is the single part "."
PartsOf(dir) == IF dir = <<>> THEN <<<<DOT>>>> ELSE dir

\* /\.[^./\\]+$/.test(targetPath): the last segment holds a dot followed
\* by at least one character, none of them a dot
HasExtension(targetPath) ==
  /\ targetPath # <<>>
  /\ LET seg == targetPath[Len(targetPath)]
     IN \E i \in 1..(Len(seg) - 1) :
          /\ seg[i] = DOT
          /\ \A j \in (i + 1)..Len(seg) : seg[j] # DOT

\* segs.join(sep) on the characters
RECURSIVE JoinWith(_, _)
JoinWith(segs, sep) ==
  IF segs = <<>> THEN <<>>
  ELSE IF Len(segs) = 1 THEN segs[1]
  ELSE segs[1] \o <<sep>> \o JoinWith(Tail(segs), sep)

\* the glob patterns of an Entry: `**/*` at the root, else `dir/**/*` and
\* `dir/*`
generatePatterns(dir) ==
  IF dir = <<>> THEN << [dir |-> <<>>, glob |-> "**/*"] >>
  ELSE << [dir |-> dir, glob |-> "**/*"], [dir |-> dir, glob |-> "*"] >>

\* a directory name of the form [chars] is, as a part of a glob pattern, a
\* character class: it matches the one-character names in chars and not
\* its own name; every other name of the model matches itself only
IsClass(seg) == Len(seg) >= 3 /\ seg[1] = "[" /\ seg[Len(seg)] = "]"
SegmentMatches(seg, pat) ==
  IF IsClass(pat)
  THEN Len(seg) = 1 /\ \E n \in 2..(Len(pat) - 1) : pat[n] = seg[1]
  ELSE seg = pat

\* the first parts of the target match the parts of dir, one by one
GlobPrefix(targetPath, dir) ==
  /\ Len(targetPath) > Len(dir)
  /\ \A n \in 1..Len(dir) : SegmentMatches(targetPath[n], dir[n])

\* minimatch(targetPath, pattern, {dot: true}) for the patterns that
\* generatePatterns makes: dir/**/* matches every path with parts below
\* the parts that match dir, dir/* those with exactly one part below
minimatch(targetPath, pattern) ==
  IF pattern.glob = "*" THEN /\ Len(targetPath) = Len(pattern.dir) + 1
                             /\ GlobPrefix(targetPath, pattern.dir)
  ELSE GlobPrefix(targetPath, pattern.dir)

\* the text of an AI_README.md on disk
ReadmeText == <<"#", SP, "r">>

\* what is on disk at a path: a file with its text, which readFile returns
\* or fails to return, or a directory; disk maps the paths that exist
File(text, readable) == [kind |-> "file", text |-> text, readable |-> readable]
Directory == [kind |-> "directory", text |-> <<>>, readable |-> FALSE]

\* readFile(path) succeeds
CanRead(fs, path) ==
  path \in DOMAIN fs /\ fs[path].kind = "file" /\ fs[path].readable

\* what stands for the content of an Entry that cannot be read
CouldNotRead(path) == <<"[Error: Could not read ", path, "]">>

\* the Entry of the AI_README.md at filePath; the content is cached when
\* asked for and readable
\* createReadmeEntry counting the file name as a level
createReadmeEntryCountingFile(filePath, cacheContent, fs) ==
  LET dir == dirname(filePath)
      scope == IF dir = <<>> THEN <<"r", "o", "o", "t">> ELSE JoinWith(dir, "-")
      entry == [path |-> filePath, scope |-> scope, level |-> Len(filePath),
                patterns |-> generatePatterns(dir)]
  IN IF cacheContent /\ CanRead(fs, filePath)
     THEN [path |-> filePath, scope |-> scope, level |-> Len(filePath),
           patterns |-> generatePatterns(dir), content |-> fs[filePath].text]
     ELSE entry

\* createReadmeEntry caching an empty body for a file it could not read
createReadmeEntryEmptyOnError(filePath, cacheContent, fs) ==
  LET dir == dirname(filePath)
      level == IF dir = <<>> THEN 0 ELSE Len(PartsOf(dir))
      scope == IF dir = <<>> THEN <<"r", "o", "o", "t">> ELSE JoinWith(dir, "-")
      entry == [path |-> filePath, scope |-> scope, level |-> level,
                patterns |-> generatePatterns(dir)]
  IN IF cacheContent
     THEN [path |-> filePath, scope |-> scope, level |-> level,
           patterns |-> generatePatterns(dir),
           content |-> IF CanRead(fs, filePath) THEN fs[filePath].text ELSE <<>>]
     ELSE entry

createReadmeEntry(filePath, cacheContent, fs) ==
  LET dir == dirname(filePath)
      level == IF dir = <<>> THEN 0 ELSE Len(PartsOf(dir))
      scope == IF dir = <<>> THEN <<"r", "o", "o", "t">> ELSE JoinWith(dir, "-")
      entry == [path |-> filePath, scope |-> scope, level |-> level,
                patterns |-> generatePatterns(dir)]
  IN IF cacheContent /\ CanRead(fs, filePath)
     THEN [path |-> filePath, scope |-> scope, level |-> level,
           patterns |-> generatePatterns(dir), content |-> fs[filePath].text]
     ELSE entry

\* the comparators of the two sorts, on the sort keys of two items:
\* a.level - b.level (scan) and a.distance !== b.distance ?
\* a.distance - b.distance : relevanceOrder[a] - relevanceOrder[b]
\* (getContextForPath); a key is <<level, 0>> or <<distance, relevanceOrder>>
compare(a, b) == IF a[1] # b[1] THEN a[1] - b[1] ELSE a[2] - b[2]

\* Array.prototype.sort is stable: x goes behind every item that does not
\* compare above it
RECURSIVE InsertStable(_, _)
InsertStable(sorted, x) ==
  IF sorted = <<>> THEN <<x>>
  ELSE IF compare(x.key, sorted[Len(sorted)].key) < 0
       THEN Append(InsertStable(SubSeq(sorted, 1, Len(sorted) - 1), x),
                   sorted[Len(sorted)])
       ELSE Append(sorted, x)

RECURSIVE SortKeyed(_)
SortKeyed(xs) ==
  IF xs = <<>> THEN <<>>
  ELSE InsertStable(SortKeyed(SubSeq(xs, 1, Len(xs) - 1)), xs[Len(xs)])

\* xs sorted by the sort keys keys[i] of its items xs[i]
SortStable(xs, keys) ==
  LET keyed == SortKeyed([i \in 1..Len(xs) |-> [key |-> keys[i], item |-> xs[i]]])
  IN [i \in 1..Len(xs) |-> keyed[i].item]

\* byLevel putting the deepest Entry first
byLevelDeepestFirst(a) == <<0 - a.level, 0>>

byLevel(a) == <<a.level, 0>>

\* scan(): one Entry per AI_README.md that glob found, in glob's order,
\* then sorted by level
scan(files, cacheContent, fs) ==
  LET readmes == [i \in 1..Len(files) |->
                    createReadmeEntry(files[i], cacheContent, fs)]
  IN SortStable(readmes, [i \in 1..Len(readmes) |-> byLevel(readmes[i])])

\* getFileDir taking every target for a directory
getFileDirOfDirectory(targetPath) == targetPath

\* getFileDir asking the disk what the target is, when the target exists
getFileDirByStat(targetPath) ==
  IF targetPath \in DOMAIN disk
  THEN (IF disk[targetPath].kind = "directory" THEN targetPath
        ELSE dirname(targetPath))
  ELSE IF ~HasExtension(targetPath) THEN targetPath ELSE dirname(targetPath)

\* the directory of the target: the target itself unless it has a file
\* extension
getFileDir(targetPath) ==
  IF ~HasExtension(targetPath) THEN targetPath ELSE dirname(targetPath)

\* matchesPath without the branch for a target below the Entry's directory
matchesPathSameDirOnly(targetPath, readme) ==
  LET targetDir == getFileDir(targetPath)
      readmeDir == dirname(readme.path)
  IN IF readmeDir = <<>> THEN TRUE
     ELSE IF targetDir = readmeDir THEN TRUE
     ELSE \E i \in 1..Len(readme.patterns) :
            /\ readme.patterns[i].glob = "*"
            /\ minimatch(targetPath, readme.patterns[i])

matchesPath(targetPath, readme) ==
  LET targetDir == getFileDir(targetPath)
      readmeDir == dirname(readme.path)
  IN IF readmeDir = <<>> THEN TRUE
     ELSE IF targetDir = readmeDir THEN TRUE
     ELSE IF StartsWithDir(targetDir, readmeDir) THEN TRUE
     ELSE \E i \in 1..Len(readme.patterns) :
            minimatch(targetPath, readme.patterns[i])

\* the number of leading parts that a and b share
RECURSIVE CommonDepth(_, _)
CommonDepth(a, b) ==
  IF a = <<>> \/ b = <<>> THEN 0
  ELSE IF a[1] = b[1] THEN 1 + CommonDepth(Tail(a), Tail(b))
  ELSE 0

\* calculateDistance counting the parts of the target path, file name
\* included, in place of those of its directory
calculateDistanceOfPath(targetPath, readme) ==
  LET fileDir == targetPath
      readmeDir == dirname(readme.path)
  IN IF readmeDir = <<>>
     THEN (IF fileDir = <<>> THEN 0 ELSE Len(PartsOf(fileDir)))
     ELSE IF fileDir = readmeDir THEN 0
     ELSE IF StartsWithDir(fileDir, readmeDir)
          THEN Len(PartsOf(SubSeq(fileDir, Len(readmeDir) + 1, Len(fileDir))))
     ELSE LET fileParts == PartsOf(fileDir)
              readmeParts == PartsOf(readmeDir)
              commonDepth == CommonDepth(fileParts, readmeParts)
          IN (Len(fileParts) - commonDepth) + (Len(readmeParts) - commonDepth)

calculateDistance(targetPath, readme) ==
  LET fileDir == getFileDir(targetPath)
      readmeDir == dirname(readme.path)
  IN IF readmeDir = <<>>
     THEN (IF fileDir = <<>> THEN 0 ELSE Len(PartsOf(fileDir)))
     ELSE IF fileDir = readmeDir THEN 0
     ELSE IF StartsWithDir(fileDir, readmeDir)
          THEN Len(PartsOf(SubSeq(fileDir, Len(readmeDir) + 1, Len(fileDir))))
     ELSE LET fileParts == PartsOf(fileDir)
              readmeParts == PartsOf(readmeDir)
              commonDepth == CommonDepth(fileParts, readmeParts)
          IN (Len(fileParts) - commonDepth) + (Len(readmeParts) - commonDepth)

\* determineRelevance testing for the target's directory before the root
determineRelevanceDirectFirst(targetPath, readme) ==
  LET fileDir == getFileDir(targetPath)
      readmeDir == dirname(readme.path)
  IN IF fileDir = readmeDir THEN "direct"
     ELSE IF readmeDir = <<>> THEN "root"
     ELSE "parent"

determineRelevance(targetPath, readme) ==
  LET fileDir == getFileDir(targetPath)
      readmeDir == dirname(readme.path)
  IN IF readmeDir = <<>> THEN "root"
     ELSE IF fileDir = readmeDir THEN "direct"
     ELSE "parent"

\* the cached content when there is one that is not empty, else the text
\* on disk, else the stand-in
getReadmeContent(readme, fs) ==
  IF "content" \in DOMAIN readme /\ readme.content # <<>> THEN readme.content
  ELSE IF CanRead(fs, readme.path) THEN fs[readme.path].text
  ELSE CouldNotRead(readme.path)

relevanceOrder(r) ==
  CASE r = "direct" -> 0 [] r = "parent" -> 1 [] r = "root" -> 2

\* byDistance with the farthest Entry first
byDistanceFarthestFirst(a) == <<0 - a.distance, relevanceOrder(a.relevance)>>

byDistance(a) == <<a.distance, relevanceOrder(a.relevance)>>

\* skipsRoot skipping the Entries of the first level of directories too
skipsRootAndFirstLevel(readme, includeRoot) == ~includeRoot /\ readme.level <= 1

\* if (!includeRoot && readme.level === 0) continue
skipsRoot(readme, includeRoot) == ~includeRoot /\ readme.level = 0

\* the loop of getContextForPath over the Entries, in the order of the index
RECURSIVE Collect(_, _, _, _)
Collect(readmes, targetPath, includeRoot, fs) ==
  IF readmes = <<>> THEN <<>>
  ELSE LET readme == readmes[1]
           rest == Collect(Tail(readmes), targetPath, includeRoot, fs)
       IN IF ~matchesPath(targetPath, readme) THEN rest
          ELSE IF skipsRoot(readme, includeRoot) THEN rest
          ELSE << [path |-> readme.path,
                   content |-> getReadmeContent(readme, fs),
                   relevance |-> determineRelevance(targetPath, readme),
                   distance |-> calculateDistance(targetPath, readme)] >>
               \o rest

getContextForPath(readmes, targetPath, includeRoot, fs) ==
  LET found == Collect(readmes, targetPath, includeRoot, fs)
  IN SortStable(found, [i \in 1..Len(found) |-> byDistance(found[i])])

NoRequest == [pending |-> FALSE]

\* getContextForPath(request.targetPath, request.includeRoot) is called and
\* returns
Resolve ==
  /\ request.pending
  /\ "targetPath" \in DOMAIN request
  /\ contexts' = getContextForPath(index, request.targetPath,
                                   request.includeRoot, disk)
  /\ request' = [request EXCEPT !.pending = FALSE]
  /\ UNCHANGED <<file, fileExists, pc, operations, idx, content,
                 updatedContent, changes, result, calls, atCall, storage, index,
                 disk, options, rival>>

NextRouter == Resolve

\* update() and getContextForPath() on a storage that may fail
\* getContextForPaths answering every key with the contexts of the last path
getContextForPathsLastForAll(readmes, paths, fs) ==
  [path \in {paths[i] : i \in 1..Len(paths)} |->
     getContextForPath(readmes, paths[Len(paths)], TRUE, fs)]

\* the Map results after the loop over paths: results.set(path, contexts)
\* adds the key or replaces the value of a key that is already there; the
\* Map is the function from its keys to their values
RECURSIVE resultsAfter(_, _, _)
resultsAfter(readmes, paths, fs) ==
  IF paths = <<>> THEN <<>>
  ELSE LET path == paths[Len(paths)]
           results == resultsAfter(readmes, SubSeq(paths, 1, Len(paths) - 1), fs)
       IN (path :> getContextForPath(readmes, path, TRUE, fs)) @@ results

getContextForPaths(readmes, paths, fs) == resultsAfter(readmes, paths, fs)

ResolveMany ==
  /\ request.pending
  /\ "paths" \in DOMAIN request
  /\ contexts' = getContextForPaths(index, request.paths, disk)
  /\ request' = [request EXCEPT !.pending = FALSE]
  /\ UNCHANGED <<file, fileExists, pc, operations, idx, content, updatedContent,
                 changes, result, calls, atCall, storage, index, disk, options,
                 rival>>

\* what glob('**/AI_README.md', {nodir: true}) can return on the disk fs:
\* the AI_README.md files, in an order the scanner does not control
glob(fs) ==
  LET found == {p \in DOMAIN fs : /\ fs[p].kind = "file"
                                  /\ p # <<>>
                                  /\ p[Len(p)] = ReadmeName}
  IN {files \in [1..Cardinality(found) -> found] :
        \A i, j \in 1..Cardinality(found) : i # j => files[i] # files[j]}

\* scan() and refresh(): the Index is rebuilt from the disk as it is now
Scan ==
  /\ \E files \in glob(disk) : index' = scan(files, options.cacheContent, disk)
  /\ UNCHANGED <<file, fileExists, pc, operations, idx, content, updatedContent,
                 changes, result, calls, atCall, storage, request, contexts,
                 disk, options, rival>>

\* the texts an edit leaves in an AI_README.md
EditTexts == { <<>>, <<"x">> }

\* an AI_README.md is written while the Index is in use: the disk changes,
\* the Index does not
Edit ==
  /\ \E p \in DOMAIN disk, text \in EditTexts :
       /\ disk[p].kind = "file"
       /\ disk[p].text # text
       /\ disk' = [disk EXCEPT ![p].text = text]
  /\ UNCHANGED <<file, fileExists, pc, operations, idx, content, updatedContent,
                 changes, result, calls, atCall, storage, index, request,
                 contexts, options, rival>>

NextSession == Scan \/ Edit \/ Resolve \/ ResolveMany

\* A second caller of update() on the same path. JavaScript runs one call
\* at a time between awaits, so the two calls interleave at readFile, at
\* each applyOperation and at writeFile; rival holds the locals of the
\* second call, the variables above those of the first.

\* the second caller calls update() with its batch
RivalCall ==
  /\ rival.pc = "Idle"
  /\ "operations" \in DOMAIN rival
  /\ rival' = [pc |-> "Pending", operations |-> rival.operations, idx |-> 0,
               content |-> <<>>, updatedContent |-> <<>>, changes |-> <<>>,
               result |-> NoResult]
  /\ UNCHANGED <<file, fileExists, pc, operations, idx, content, updatedContent,
                 changes, result, calls, atCall, storage, routerVars>>

\* let content = ''; if (existsSync(readmePath)) content = await readFile(...)
RivalRead ==
  /\ rival.pc = "Pending"
  /\ fileExists => storage.readable
  /\ rival' = [rival EXCEPT !.pc = "Applying",
                            !.content = IF fileExists THEN file ELSE <<>>,
                            !.updatedContent = IF fileExists THEN file ELSE <<>>]
  /\ UNCHANGED <<file, fileExists, pc, operations, idx, content, updatedContent,
                 changes, result, calls, atCall, storage, routerVars>>

\* one iteration of the second caller's loop whose applyOperation returns
RivalApply ==
  /\ rival.pc = "Applying"
  /\ rival.idx < Len(rival.operations)
  /\ LET r == applyOperation(rival.updatedContent, rival.operations[rival.idx + 1])
     IN /\ r.ok
        /\ rival' = [rival EXCEPT !.updatedContent = r.content,
                                  !.changes = Append(@, r.change),
                                  !.idx = @ + 1]
  /\ UNCHANGED <<file, fileExists, pc, operations, idx, content, updatedContent,
                 changes, result, calls, atCall, storage, routerVars>>

\* one iteration of the second caller's loop whose applyOperation throws
RivalCatch ==
  /\ rival.pc = "Applying"
  /\ rival.idx < Len(rival.operations)
  /\ LET r == applyOperation(rival.updatedContent, rival.operations[rival.idx + 1])
     IN /\ ~r.ok
        /\ rival' = [rival EXCEPT !.pc = "Aborted",
                                  !.result = [success |-> FALSE, error |-> r.error,
                                              changes |-> <<>>]]
  /\ UNCHANGED <<file, fileExists, pc, operations, idx, content, updatedContent,
                 changes, result, calls, atCall, storage, routerVars>>

\* the second caller's writeFile and its return {success: true, changes}
RivalWrite ==
  /\ rival.pc = "Applying"
  /\ rival.idx = Len(rival.operations)
  /\ CanWrite
  /\ file' = rival.updatedContent
  /\ fileExists' = TRUE
  /\ rival' = [rival EXCEPT !.pc = "Committed",
                            !.result = [success |-> TRUE, changes |-> rival.changes]]
  /\ UNCHANGED <<pc, operations, idx, content, updatedContent, changes, result,
                 calls, atCall, storage, routerVars>>

NextConcurrent ==
  \/ Next
  \/ RivalCall \/ RivalRead \/ RivalApply \/ RivalCatch \/ RivalWrite

NextFaulty == Next \/ ReadError \/ WriteError \/ Resolve

----------------------------------------------------------------------------
(* Inputs of the checked instances *)

\* all sequences over S of length lo..hi
SeqsOf(S, lo, hi) == UNION {[1..n -> S] : n \in lo..hi}

\* a disk that holds the AI_README.md files `files`, all with the same text
ReadmesOnDisk(files, readable) ==
  [p \in {files[i] : i \in 1..Len(files)} |-> File(ReadmeText, readable)]

TextA == <<"a">>
TextX == <<"x">>
Blank == <<>>
H1 == <<"#", " ", "a">>
H2 == <<"#", "#", " ", "a">>
H2b == <<"#", "#", " ", "b">>
H2z == <<"#", "#", " ", "z">>
H3 == <<"#", "#", "#", " ", "a">>
H2indented == <<" ", "#", "#", " ", "a">>
H2padded == <<" ", "#", "#", " ", "b", " ">>
Tag3 == <<"#", "#", "#", "a">>
TwoLines == <<"x", NL, "y">>

InitWith(docs, batches) ==
  /\ \/ fileExists = TRUE /\ file \in docs
     \/ fileExists = FALSE /\ file = <<>>
  /\ operations \in batches
  /\ pc = "Idle"
  /\ calls = 0
  /\ idx = 0
  /\ content = <<>>
  /\ updatedContent = <<>>
  /\ changes = <<>>
  /\ result = NoResult
  /\ atCall = <<>>
  /\ storage = Healthy
  /\ index = <<>>
  /\ request = NoRequest
  /\ contexts = <<>>
  /\ disk = <<>>
  /\ options = [cacheContent |-> TRUE]
  /\ rival = NoCall

\* batches of all five kinds over short documents
BatchLines == {TextA, H2, Blank}
BatchDocs == {Join(ls) : ls \in SeqsOf(BatchLines, 1, MaxBatchLines)}
BatchOps ==
  { [type |-> "append", content |-> TextX],
    [type |-> "prepend", content |-> H2],
    [type |-> "replace", searchText |-> TextA, content |-> TextX],
    [type |-> "replace", searchText |-> TextX, content |-> TextA],
    [type |-> "replace", content |-> TextX],
    [type |-> "insert-after", section |-> H2, content |-> TextX],
    [type |-> "insert-after", content |-> TextX],
    [type |-> "insert-before", section |-> H2, content |-> TextX],
    [type |-> "insert-before", section |-> H2z, content |-> TextX] }

InitBatch == InitWith(BatchDocs, SeqsOf(BatchOps, 0, MaxOps))

SpecBatch == InitBatch /\ [][Next]_vars

\* single insertions over documents of heading and text lines
InsertLines == {Blank, TextA, H1, H2, H2b, H3, H2indented, Tag3}
InsertDocs == {Join(ls) : ls \in SeqsOf(InsertLines, 1, MaxLines)}
InsertSections == {H2, H2b, H2padded, H2z, H3, <<SP>>, <<>>}
InsertOps ==
  { [type |-> t, section |-> sec, content |-> c] :
      t \in {"insert-after", "insert-before"}, sec \in InsertSections,
      c \in {TextX, TwoLines} }
  \cup { [type |-> t, content |-> TextX] : t \in {"insert-after", "insert-before"} }

InitInsert == InitWith(InsertDocs, SeqsOf(InsertOps, 1, 1))

SpecInsert == InitInsert /\ [][Next]_vars

\* single replacements over all short texts
ReplaceDocs == SeqsOf({"a", "b", NL}, 0, MaxDocLen)
ReplaceOps ==
  { [type |-> "replace", searchText |-> st, content |-> c] :
      st \in SeqsOf({"a", "b"}, 0, MaxTextLen),
      c \in SeqsOf({"a", "b", DOLLAR, "&"}, 0, MaxTextLen) }
  \cup { [type |-> "replace", content |-> TextX] }

InitReplace == InitWith(ReplaceDocs, SeqsOf(ReplaceOps, 1, 1))

SpecReplace == InitReplace /\ [][Next]_vars

\* update() and getContextForPath() on every condition of the storage
SegA == <<"a">>
SegB == <<"b">>
SegFile == <<"f", DOT, "t">>

FaultyOps ==
  { [type |-> "append", content |-> TextX],
    [type |-> "replace", searchText |-> TextX, content |-> TextA],
    [type |-> "delete", content |-> TextX] }

FaultyFiles == << <<ReadmeName>>, <<SegA, ReadmeName>> >>
FaultyTargets == { <<SegA, SegFile>>, <<SegB>> }

InitFaulty ==
  /\ \/ fileExists = TRUE /\ file = TextA
     \/ fileExists = FALSE /\ file = <<>>
  /\ storage \in [parentExists : BOOLEAN, readable : BOOLEAN, writable : BOOLEAN]
  /\ fileExists => storage.parentExists
  /\ operations \in SeqsOf(FaultyOps, 0, MaxOps)
  /\ pc = "Idle"
  /\ calls = 0
  /\ idx = 0
  /\ content = <<>>
  /\ updatedContent = <<>>
  /\ changes = <<>>
  /\ result = NoResult
  /\ atCall = <<>>
  /\ disk = ReadmesOnDisk(FaultyFiles, storage.readable)
  /\ options \in [cacheContent : BOOLEAN]
  /\ index = scan(FaultyFiles, options.cacheContent, disk)
  /\ request \in [pending : {TRUE}, targetPath : FaultyTargets,
                  includeRoot : BOOLEAN]
  /\ contexts = <<>>
  /\ rival = NoCall

SpecFaulty == InitFaulty /\ [][NextFaulty]_vars

\* two callers of update() on one document: the first with a batch of up
\* to MaxOps operations, the second with one operation
ConcurrentOps ==
  { [type |-> "append", content |-> TextX],
    [type |-> "prepend", content |-> H2],
    [type |-> "replace", searchText |-> TextX, content |-> TextA] }

InitConcurrent ==
  /\ fileExists = TRUE /\ file = TextA
  /\ operations \in SeqsOf(ConcurrentOps, 1, MaxOps)
  /\ pc = "Idle"
  /\ calls = 0
  /\ idx = 0
  /\ content = <<>>
  /\ updatedContent = <<>>
  /\ changes = <<>>
  /\ result = NoResult
  /\ atCall = <<>>
  /\ storage = Healthy
  /\ index = <<>>
  /\ request = NoRequest
  /\ contexts = <<>>
  /\ disk = <<>>
  /\ options = [cacheContent |-> TRUE]
  /\ rival \in [pc : {"Idle"}, operations : SeqsOf(ConcurrentOps, 1, 1)]

SpecConcurrent == InitConcurrent /\ [][NextConcurrent]_vars

\* batches of all five kinds whose contents span lines or hold a
\* replacement pattern
AccountingOps ==
  { [type |-> "append", content |-> <<"x", NL, "x">>],
    [type |-> "prepend", content |-> H2],
    [type |-> "replace", searchText |-> TextA, content |-> <<"x", NL, "x">>],
    [type |-> "replace", searchText |-> TextA, content |-> <<DOLLAR, BACKTICK>>],
    [type |-> "replace", searchText |-> TextX, content |-> TextA],
    [type |-> "insert-after", section |-> H2, content |-> TextX],
    [type |-> "insert-before", section |-> H2, content |-> <<"x", NL, "x">>] }

InitAccounting == InitWith(BatchDocs, SeqsOf(AccountingOps, 1, MaxOps))

SpecAccounting == InitAccounting /\ [][Next]_vars

\* the update() variables of a run that only resolves
UpdaterIdle ==
  /\ fileExists = FALSE
  /\ file = <<>>
  /\ operations = <<>>
  /\ pc = "Idle"
  /\ calls = 0
  /\ idx = 0
  /\ content = <<>>
  /\ updatedContent = <<>>
  /\ changes = <<>>
  /\ result = NoResult
  /\ atCall = <<>>

\* the disk fs with nothing, a file or a directory at the target path
WithTarget(fs, targetPath, kind) ==
  CASE kind = "absent" -> fs
    [] kind = "file" -> (targetPath :> File(TextX, TRUE)) @@ fs
    [] kind = "directory" -> (targetPath :> Directory) @@ fs

\* getContextForPath() over every small project: AI_README.md files in up
\* to MaxEntries directories of depth up to MaxDepth (one of them a
\* directory whose name has a dot), targets one level deeper than that
RouterDirs == SeqsOf({SegA, SegB}, 0, MaxDepth) \cup { <<SegFile>> }
RouterTargets ==
  LET dirs == SeqsOf({SegA, SegB}, 0, MaxDepth + 1)
  IN dirs \cup {d \o <<SegFile>> : d \in dirs} \cup { <<SegFile, SegA>> }

\* the place of a directory in the order in which glob walks the project
RECURSIVE GlobRank(_)
GlobRank(dir) ==
  IF dir = <<>> THEN 0
  ELSE LET code == CASE dir[1] = SegA -> 1 [] dir[1] = SegB -> 2 [] OTHER -> 3
       IN code * (4 ^ (MaxDepth + 1 - Len(dir))) + GlobRank(Tail(dir))

GlobResults ==
  { [i \in 1..Len(ds) |-> ds[i] \o <<ReadmeName>>] :
      ds \in { fs \in SeqsOf(RouterDirs, 0, MaxEntries) :
                 \A i, j \in 1..Len(fs) : i < j => GlobRank(fs[i]) < GlobRank(fs[j]) } }

InitRouter ==
  /\ UpdaterIdle
  /\ storage = Healthy
  /\ options = [cacheContent |-> TRUE]
  /\ request \in [pending : {TRUE}, targetPath : RouterTargets,
                  includeRoot : BOOLEAN]
  /\ \E files \in GlobResults, kind \in {"absent", "file", "directory"} :
       /\ kind = "file" => request.targetPath # <<>>
       /\ disk = WithTarget(ReadmesOnDisk(files, TRUE), request.targetPath, kind)
       /\ index = scan(files, options.cacheContent, disk)
  /\ contexts = <<>>
  /\ rival = NoCall

SpecRouter == InitRouter /\ [][NextRouter]_vars

\* getContextForPath() in a project with a directory named [ab], as the
\* directory of a dynamic route is: AI_README.md files in up to MaxEntries
\* of the directories ., a, [ab] and a/[ab], targets in a, b, a/b and in
\* the directories with the AI_README.md files
SegClass == <<"[", "a", "b", "]">>
BracketDirs == { <<>>, <<SegA>>, <<SegClass>>, <<SegA, SegClass>> }
BracketTargets ==
  { <<SegA, SegFile>>, <<SegB>>, <<SegA, SegB, SegFile>>, <<SegA, SegB>>,
    <<SegClass, SegFile>>, <<SegA, SegClass, SegFile>>, <<SegFile>> }
BracketResults ==
  { [i \in 1..Len(ds) |-> ds[i] \o <<ReadmeName>>] :
      ds \in { fs \in SeqsOf(BracketDirs, 0, MaxEntries) :
                 \A i, j \in 1..Len(fs) : i < j => GlobRank(fs[i]) < GlobRank(fs[j]) } }

InitBracket ==
  /\ UpdaterIdle
  /\ storage = Healthy
  /\ options = [cacheContent |-> TRUE]
  /\ request \in [pending : {TRUE}, targetPath : BracketTargets,
                  includeRoot : BOOLEAN]
  /\ \E files \in BracketResults :
       /\ disk = ReadmesOnDisk(files, TRUE)
       /\ index = scan(files, options.cacheContent, disk)
  /\ contexts = <<>>
  /\ rival = NoCall

SpecBracket == InitBracket /\ [][NextRouter]_vars

\* a session on a project with AI_README.md at the root, in b and in a/b: each
\* file present or not, empty or not, readable or not, the cache on or
\* off; the Index is scanned first, then the files are edited, the
\* project is scanned again and one request is resolved, in any order
SessionReadmes == { <<ReadmeName>>, <<SegB, ReadmeName>>, <<SegA, SegB, ReadmeName>> }
SessionFiles == {File(text, readable) : text \in { <<>>, ReadmeText }, readable \in BOOLEAN}
SessionTargets == { <<SegA, SegB, SegFile>>, <<SegB>> }
SessionRequests ==
  [pending : {TRUE}, targetPath : SessionTargets, includeRoot : BOOLEAN]
  \cup [pending : {TRUE}, paths : SeqsOf(SessionTargets, 1, 2)]

InitSession ==
  /\ UpdaterIdle
  /\ storage = Healthy
  /\ options \in [cacheContent : BOOLEAN]
  /\ disk \in UNION {[present -> SessionFiles] : present \in SUBSET SessionReadmes}
  /\ \E files \in glob(disk) : index = scan(files, options.cacheContent, disk)
  /\ request \in SessionRequests
  /\ contexts = <<>>
  /\ rival = NoCall

SpecSession == InitSession /\ [][NextSession]_vars

\* getContextForPath() in the project of the router tests: AI_README.md
\* at the root and in apps/frontend, targets in and around
\* apps/frontend/src/components/atoms
Apps == <<"a", "p", "p", "s">>
Frontend == <<"f", "r", "o", "n", "t", "e", "n", "d">>
Backend == <<"b", "a", "c", "k", "e", "n", "d">>
Src == <<"s", "r", "c">>
Components == <<"c", "o", "m", "p", "o", "n", "e", "n", "t", "s">>
Atoms == <<"a", "t", "o", "m", "s">>
ButtonTsx == <<"B", "u", "t", "t", "o", "n", DOT, "t", "s", "x">>

ButtonPath == <<Apps, Frontend, Src, Components, Atoms, ButtonTsx>>
RootReadme == <<ReadmeName>>
FrontendReadme == <<Apps, Frontend, ReadmeName>>

ScenarioTargets ==
  {SubSeq(ButtonPath, 1, n) : n \in 0..Len(ButtonPath)}
  \cup SeqsOf({Apps, Frontend, Backend, Src, ButtonTsx}, 1, 2)

InitScenario ==
  /\ UpdaterIdle
  /\ storage \in {Healthy, [Healthy EXCEPT !.readable = FALSE]}
  /\ options \in [cacheContent : BOOLEAN]
  /\ \E files \in { <<RootReadme, FrontendReadme>>, <<FrontendReadme, RootReadme>> } :
       /\ disk = ReadmesOnDisk(files, storage.readable)
       /\ index = scan(files, options.cacheContent, disk)
  /\ request \in [pending : {TRUE}, targetPath : ScenarioTargets,
                  includeRoot : BOOLEAN]
  /\ contexts = <<>>
  /\ rival = NoCall

SpecScenario == InitScenario /\ [][NextRouter]_vars

----------------------------------------------------------------------------
(* Sequential application, the reference for a whole batch: the operations  *)
(* one after the other, each on the text the one before produced, stopping  *)
(* at the first that throws.  done is the number of operations applied.     *)

RECURSIVE ApplyAll(_, _)
ApplyAll(text, ops) ==
  IF ops = <<>> THEN [ok |-> TRUE, text |-> text, done |-> 0, types |-> <<>>]
  ELSE LET r == applyOperation(text, ops[1])
       IN IF ~r.ok
          THEN [ok |-> FALSE, text |-> text, done |-> 0, types |-> <<>>,
                error |-> r.error]
          ELSE LET rest == ApplyAll(r.content, Tail(ops))
               IN [rest EXCEPT !.done = @ + 1, !.types = <<ops[1].type>> \o @]

Finished == pc \in {"Committed", "Aborted"}

\* the stored document as it was when the current call was made
Stored == atCall[calls]

----------------------------------------------------------------------------
(* C1: batch atomicity.  From the call until the commit the stored document *)
(* is the one that was there when update() was called; a call in which an   *)
(* operation failed returns success = false and leaves the stored document  *)
(* identical to that one; the document is written only when every           *)
(* operation of the list has succeeded.                                     *)
C1_BatchAtomicity ==
  /\ pc \in {"Pending", "Applying", "Aborted"} =>
       file = Stored.text /\ fileExists = Stored.exists
  /\ pc = "Aborted" =>
       /\ result.success = FALSE
       /\ ~ApplyAll(content, operations).ok
  /\ pc = "Committed" =>
       /\ idx = Len(operations)
       /\ ApplyAll(content, operations).ok

\* a batch aborted after an earlier operation had already changed the text
C1_Witness ==
  /\ pc = "Aborted"
  /\ idx > 0
  /\ updatedContent # content
  /\ file = Stored.text

----------------------------------------------------------------------------
----------------------------------------------------------------------------
\* the message an operation of a given kind fails with
ReasonOf(op) ==
  CASE op.type = "replace" ->
         IF Missing(op, "searchText")
         THEN <<"searchText is required for replace operation">>
         ELSE <<"Text not found: ">> \o op.searchText
    [] op.type \in {"insert-after", "insert-before"} ->
         IF Missing(op, "section")
         THEN <<"section is required for " \o op.type \o " operation">>
         ELSE <<"Section not found: ">> \o op.section
    [] OTHER -> <<"Unknown operation type: ", op.type>>

(* C3, as stated: the error of an aborted batch is present, is absent from  *)
(* success results, and identifies the operation that failed by its index:  *)
(* the same batch never fails with the same error at another index,         *)
(* whatever document it is given.                                           *)
C3_ErrorIdentifiesIndex ==
  /\ Finished => ("error" \in DOMAIN result <=> ~result.success)
  /\ pc = "Aborted" =>
       \A d \in BatchDocs :
          LET other == ApplyAll(d, operations)
          IN (~other.ok /\ other.error = result.error) => other.done = idx

(* C3, amended: the error of an aborted batch is present, is absent from    *)
(* success results, and is the message of the operation that failed: the    *)
(* reason with the section or search text that was not found, without the   *)
(* operation's index.                                                       *)
C3_ErrorNamesReason ==
  /\ Finished => ("error" \in DOMAIN result <=> ~result.success)
  /\ pc = "Aborted" => result.error = ReasonOf(operations[idx + 1])

\* a batch aborted at its second operation
C3_Witness ==
  /\ pc = "Aborted"
  /\ idx = 1
  /\ "error" \in DOMAIN result

----------------------------------------------------------------------------
(* C10: a committed batch of the same append twice leaves a document that   *)
(* ends with the content, a blank line before it, the content again and a   *)
(* blank line before that; each of the two blank lines is the only one in   *)
(* front of its copy: the line before it, if there is one, is not blank.    *)
(* Stated for the documents that start with text.                           *)
C10_AppendTwice ==
  (/\ pc = "Committed"
   /\ content # <<>>
   /\ content[1] # NL
   /\ Len(operations) = 2
   /\ operations[1] = operations[2]
   /\ operations[1].type = "append") =>
    LET c == Split(operations[1].content)
        k == Len(c)
        ls == Split(file)
        n == Len(ls)
        second == n - k + 1
        first == second - k - 1
        OneBlankBefore(pos) ==
          /\ pos - 1 >= 1
          /\ ls[pos - 1] = <<>>
          /\ pos - 2 >= 1 => ls[pos - 2] # <<>>
    IN /\ first >= 1
       /\ SubSeq(ls, second, n) = c
       /\ SubSeq(ls, first, first + k - 1) = c
       /\ OneBlankBefore(second)
       /\ OneBlankBefore(first)

----------------------------------------------------------------------------
(* Single insertions *)

\* a finished call whose batch is one operation of the given kind that
\* carries a section
SingleInsert(kind) ==
  /\ Len(operations) = 1
  /\ operations[1].type = kind
  /\ "section" \in DOMAIN operations[1]

\* markdown heading level of a line: one to six '#', then whitespace; 0 for
\* a line that is no heading
HeadingLevel(line) ==
  LET k == LeadingHashes(line)
  IN IF k \in 1..6 /\ Len(line) > k /\ IsWhite(line[k + 1]) THEN k ELSE 0

\* lines whose trimmed text is the trimmed requested section
MatchingLines(lines, section) ==
  {i \in 1..Len(lines) : Trim(lines[i]) = Trim(section)}

\* the stored text is the text read with <<items>> spliced in before pos
InsertedAt(pos, items) == file = Join(Splice(Split(content), pos, items))

(* C4: a committed insert-after whose section matches a heading line H,     *)
(* indented or not, puts the blank line and the content after H and after   *)
(* every deeper heading of H's section, and not after the first later       *)
(* heading of the same or a shallower level.  Stated for the documents in   *)
(* which every line that starts with '#' is a heading.                      *)
C4_SectionScopedInsertion ==
  (/\ pc = "Committed"
   /\ SingleInsert("insert-after")
   /\ \A i \in 1..Len(Split(content)) :
         StartsWithHash(Trim(Split(content)[i])) =>
           HeadingLevel(Trim(Split(content)[i])) >= 1) =>
    LET lines == Split(content)
        h == Min(MatchingLines(lines, operations[1].section))
        level == HeadingLevel(Trim(lines[h]))
        closers == {i \in (h + 1)..Len(lines) :
                      HeadingLevel(Trim(lines[i])) \in 1..level}
        boundary == IF closers = {} THEN Len(lines) + 1 ELSE Min(closers)
        deeper == {i \in (h + 1)..(boundary - 1) :
                     HeadingLevel(Trim(lines[i])) > level}
    IN level >= 1 =>
         \E pos \in (h + 1)..boundary :
            /\ \A i \in deeper : pos > i
            /\ InsertedAt(pos, <<<<>>, operations[1].content>>)

(* C5: a committed insert-after on an unindented heading splices exactly    *)
(* before the first later line that begins with '#' and has at most as many *)
(* leading '#' as the target, or at the end of the document; a later line   *)
(* with more leading '#' does not end the scope, whatever follows its '#'.  *)
C5_BoundaryByHashCount ==
  (pc = "Committed" /\ SingleInsert("insert-after")) =>
    LET lines == Split(content)
        h == Min(MatchingLines(lines, operations[1].section))
        target == LeadingHashes(lines[h])
        closers == {i \in (h + 1)..Len(lines) :
                      /\ StartsWithHash(Trim(lines[i]))
                      /\ LeadingHashes(Trim(lines[i])) <= target}
        boundary == IF closers = {} THEN Len(lines) + 1 ELSE Min(closers)
    IN HeadingLevel(lines[h]) >= 1 =>
         InsertedAt(boundary, <<<<>>, operations[1].content>>)

\* the finished call failed with "Section not found: <section>"
SectionNotFound ==
  /\ pc = "Aborted"
  /\ result.error = <<"Section not found: ">> \o operations[1].section

(* C6, as stated: insert-after and insert-before fail with "Section not     *)
(* found" exactly when no line of the document has the requested section    *)
(* as its trimmed text.  Stated for the sections that are not all blank.    *)
C6_ExactSectionMatch ==
  (/\ Finished
   /\ SingleInsert("insert-after") \/ SingleInsert("insert-before")
   /\ Trim(operations[1].section) # <<>>) =>
    LET lines == Split(content)
        exact == {i \in 1..Len(lines) : Trim(lines[i]) = operations[1].section}
    IN SectionNotFound <=> exact = {}

(* C6, amended: for a non-empty section, insert-after and insert-before     *)
(* fail with "Section not found" exactly when no line's trimmed text equals *)
(* the trimmed section; otherwise they act on the first such line:          *)
(* insert-before splices at that line, insert-after at some line below it.  *)
C6_TrimmedSectionMatch ==
  (/\ Finished
   /\ SingleInsert("insert-after") \/ SingleInsert("insert-before")
   /\ operations[1].section # <<>>) =>
    LET lines == Split(content)
        op == operations[1]
        matching == MatchingLines(lines, op.section)
    IN /\ SectionNotFound <=> matching = {}
       /\ matching # {} =>
            /\ pc = "Committed"
            /\ op.type = "insert-before" =>
                 InsertedAt(Min(matching), <<op.content, <<>>>>)
            /\ op.type = "insert-after" =>
                 \E pos \in (Min(matching) + 1)..(Len(lines) + 1) :
                    InsertedAt(pos, <<<<>>, op.content>>)

\* a committed insertion whose section carries surrounding whitespace and
\* matches two lines of the document
C6_Witness ==
  /\ pc = "Committed"
  /\ SingleInsert("insert-before")
  /\ operations[1].section # Trim(operations[1].section)
  /\ HeadingLevel(Trim(operations[1].section)) >= 1
  /\ Cardinality(MatchingLines(Split(content), operations[1].section)) = 2

(* C7: a committed insert-before puts the lines of the content and then one *)
(* blank line at the index of the heading: the lines above the heading keep *)
(* index and text, the heading and the lines below it keep text and order   *)
(* and move down by the number of inserted lines.                           *)
C7_InsertBeforeFrame ==
  (pc = "Committed" /\ SingleInsert("insert-before")) =>
    LET old == Split(content)
        new == Split(file)
        h == Min(MatchingLines(old, operations[1].section))
        c == Split(operations[1].content)
        k == Len(c) + 1
    IN /\ Len(new) = Len(old) + k
       /\ \A i \in 1..(h - 1) : new[i] = old[i]
       /\ SubSeq(new, h, h + k - 2) = c
       /\ new[h + k - 1] = <<>>
       /\ \A i \in h..Len(old) : new[i + k] = old[i]
       /\ result.changes[1].linesAdded = k

\* a committed insert-before of two lines in front of a heading that is
\* neither the first nor the last line
C7_Witness ==
  /\ pc = "Committed"
  /\ SingleInsert("insert-before")
  /\ Len(Split(operations[1].content)) = 2
  /\ LET old == Split(content)
         h == Min(MatchingLines(old, operations[1].section))
     IN h > 1 /\ h < Len(old) /\ HeadingLevel(old[h]) >= 1

----------------------------------------------------------------------------
(* Single replacements *)

\* the batch is one replace that carries a non-empty searchText
SingleReplace ==
  /\ Len(operations) = 1
  /\ operations[1].type = "replace"
  /\ ~Missing(operations[1], "searchText")

\* the finished call failed with "Text not found: <searchText>"
TextNotFound ==
  /\ pc = "Aborted"
  /\ result.error = <<"Text not found: ">> \o operations[1].searchText

(* C8: a replace commits exactly when its searchText occurs in the document *)
(* and fails with "Text not found" exactly when it does not, whatever the   *)
(* content; a committed replace leaves the document with one occurrence of  *)
(* searchText exchanged for the content, character for character.           *)
C8_ReplaceLiteral ==
  (Finished /\ SingleReplace) =>
    LET S == operations[1].searchText
        C == operations[1].content
    IN /\ pc = "Committed" <=> Includes(content, S)
       /\ TextNotFound <=> ~Includes(content, S)
       /\ pc = "Committed" =>
            \E p \in 1..Len(content) :
               /\ SubSeq(content, p, p + Len(S) - 1) = S
               /\ file = SubSeq(content, 1, p - 1) \o C \o Drop(content, p + Len(S))

(* C9, as stated: on a document with exactly one occurrence of S,           *)
(* replace(S, C) leaves a document without S and with exactly one           *)
(* occurrence of C, and the same replace once more fails with a not-found   *)
(* failure and leaves the document unchanged.  Stated for the contents      *)
(* that are not empty, differ from S and hold no '$'.                       *)
C9_ReplaceRoundTrip ==
  (/\ Finished
   /\ SingleReplace
   /\ operations[1].content \notin {<<>>, operations[1].searchText}
   /\ ~Includes(operations[1].content, <<DOLLAR>>)
   /\ Occurrences(atCall[1].text, operations[1].searchText) = 1
   /\ atCall[1].exists) =>
    LET S == operations[1].searchText
        C == operations[1].content
    IN /\ calls = 1 =>
            /\ pc = "Committed"
            /\ ~Includes(file, S)
            /\ Occurrences(file, C) = 1
       /\ calls = 2 =>
            /\ TextNotFound
            /\ file = atCall[2].text

(* C9, amended: on a document with exactly one occurrence of S, a committed *)
(* replace(S, C) changes the document and keeps the text in front of the    *)
(* occurrence and the text behind it; S can still occur in the result and C *)
(* can occur in it more than once or not at all.  Whenever S is absent from *)
(* the result, the same replace once more fails with "Text not found" and   *)
(* leaves the document unchanged.                                           *)
C9_ReplaceThenNotFound ==
  (/\ Finished
   /\ SingleReplace
   /\ Occurrences(atCall[1].text, operations[1].searchText) = 1
   /\ atCall[1].exists) =>
    LET S == operations[1].searchText
        old == atCall[1].text
        p == IndexOf(old, S)
        tail == Drop(old, p + Len(S))
    IN /\ (calls = 1 /\ pc = "Committed") =>
            /\ file # old
            /\ Len(file) >= p - 1 + Len(tail)
            /\ SubSeq(file, 1, p - 1) = SubSeq(old, 1, p - 1)
            /\ Drop(file, Len(file) - Len(tail) + 1) = tail
       /\ (calls = 2 /\ atCall[2].text # old /\ ~Includes(atCall[2].text, S)) =>
            /\ TextNotFound
            /\ file = atCall[2].text

\* the second of two identical replaces failed after the first had removed
\* the only occurrence of the search text
C9_Witness ==
  /\ calls = 2
  /\ pc = "Aborted"
  /\ SingleReplace
  /\ Occurrences(atCall[1].text, operations[1].searchText) = 1
  /\ atCall[2].text # atCall[1].text
  /\ ~Includes(atCall[2].text, operations[1].searchText)

----------------------------------------------------------------------------
(* C11: a committed batch of one append stores the original text, one blank *)
(* separator line and then the content at the very end; one prepend stores  *)
(* the content, one blank separator line and then the original text.  Every *)
(* original line is kept, unchanged and in order.                           *)
C11_AppendPrependFrame ==
  (pc = "Committed" /\ Len(operations) = 1) =>
    LET op == operations[1]
        original == Stored.text
    IN /\ op.type = "append" =>
            /\ file = original \o <<NL, NL>> \o op.content
            /\ Split(file) = Split(original) \o << <<>> >> \o Split(op.content)
       /\ op.type = "prepend" =>
            /\ file = op.content \o <<NL, NL>> \o original
            /\ Split(file) = Split(op.content) \o << <<>> >> \o Split(original)

\* a prepend in front of a document of several lines has been committed
C11_Witness ==
  /\ pc = "Committed"
  /\ Len(operations) = 1
  /\ operations[1].type = "prepend"
  /\ Len(Split(Stored.text)) >= 2
  /\ file = operations[1].content \o <<NL, NL>> \o Stored.text

----------------------------------------------------------------------------
(* C12: update() on a path where no document exists returns a failure whose *)
(* error mentions "File not found", here for the path whose directory does  *)
(* not exist either and a batch of one append.                              *)
MentionsFileNotFound(error) ==
  \E i \in 1..Len(error) : error[i] \in {"File not found", "File not found: "}

C12_FileNotFound ==
  (/\ pc \in {"Committed", "Aborted", "Failed"}
   /\ ~Stored.exists
   /\ ~storage.parentExists
   /\ Len(operations) = 1
   /\ operations[1].type = "append") =>
    /\ result.success = FALSE
    /\ MentionsFileNotFound(result.error)

----------------------------------------------------------------------------
(* C13: no exception escapes.  The promise of update() is never rejected:   *)
(* whatever the batch and the storage do, a call that has ended has         *)
(* returned a structured result: success with the changes, or failure with  *)
(* an error message and no changes.  getContextForPath() returns a list of  *)
(* Contexts, each with a content, also when no document can be read.        *)
IsResult(r) ==
  /\ "success" \in DOMAIN r
  /\ r.success \in BOOLEAN
  /\ r.success => DOMAIN r = {"success", "changes"}
  /\ ~r.success => /\ DOMAIN r = {"success", "error", "changes"}
                   /\ r.error # <<>>
                   /\ r.changes = <<>>
  /\ DOMAIN r.changes = 1..Len(r.changes)

C13_NoExceptionEscapes ==
  /\ pc \in {"Idle", "Pending", "Applying", "Committed", "Aborted", "Failed"}
  /\ pc \in {"Committed", "Aborted", "Failed"} => IsResult(result)
  /\ ~request.pending =>
       /\ DOMAIN contexts = 1..Len(contexts)
       /\ \A i \in 1..Len(contexts) : contexts[i].content # <<>>

\* update() has returned the failure of reading an unreadable document, and
\* getContextForPath() a Context whose content stands for an unreadable one
C13_Witness ==
  /\ pc = "Failed"
  /\ Stored.exists
  /\ ~storage.readable
  /\ result = [success |-> FALSE, error |-> FsError("EACCES"), changes |-> <<>>]
  /\ request # NoRequest
  /\ ~request.pending
  /\ \E i \in 1..Len(contexts) :
       contexts[i].content = CouldNotRead(contexts[i].path)

----------------------------------------------------------------------------
(* The claims on getContextForPath().  The directory of an Entry is its     *)
(* path without the file name; the directory of the target is what          *)
(* getFileDir makes of the target path.                                     *)

Resolved == ~request.pending /\ "targetPath" \in DOMAIN request

DirOf(path) == SubSeq(path, 1, Len(path) - 1)

TargetDir == getFileDir(request.targetPath)

ProperAncestor(d, e) == Len(d) < Len(e) /\ \A i \in 1..Len(d) : d[i] = e[i]

\* the Entry's directory is the root, the target's directory or above it
Covers(d) == d = <<>> \/ d = TargetDir \/ ProperAncestor(d, TargetDir)

ContextsOf(path) == {k \in 1..Len(contexts) : contexts[k].path = path}

(* C14: ancestor completeness.  Every Entry whose directory is the project  *)
(* root, the target's directory or a proper ancestor of it has exactly one  *)
(* Context in the answer, unless it is a root Entry and includeRoot is      *)
(* false.                                                                   *)
C14_AncestorCompleteness ==
  Resolved =>
    \A i \in 1..Len(index) :
      LET d == DirOf(index[i].path)
      IN (Covers(d) /\ ~(d = <<>> /\ ~request.includeRoot)) =>
           Cardinality(ContextsOf(index[i].path)) = 1

\* the answer holds the root Entry and an Entry from above the target's
\* directory
C14_Witness ==
  /\ Resolved
  /\ request.includeRoot
  /\ \E i, j \in 1..Len(index) :
       /\ DirOf(index[i].path) = <<>>
       /\ ProperAncestor(DirOf(index[j].path), TargetDir)
       /\ DirOf(index[j].path) # <<>>
       /\ ContextsOf(index[i].path) # {}
       /\ ContextsOf(index[j].path) # {}

----------------------------------------------------------------------------
(* C15: the answer is sorted by non-decreasing distance; of two Contexts at *)
(* the same distance a direct one comes before a parent one and a parent    *)
(* one before a root one.  No two Contexts of an answer are at the same     *)
(* distance, so the order of a tie is stated of the comparator.             *)
RelevanceRank(r) == IF r = "direct" THEN 1 ELSE IF r = "parent" THEN 2 ELSE 3

\* the comparator of the sort puts a before b
SortsBefore(a, b) == compare(byDistance(a), byDistance(b)) < 0

----------------------------------------------------------------------------
(* C16: resolving apps/frontend/src/components/atoms/Button.tsx against the *)
(* index of the root AI_README.md and apps/frontend/AI_README.md returns    *)
(* the frontend Entry with distance 3 and relevance parent, and the root    *)
(* Entry with relevance root and distance rootDistance; with                *)
(* includeRoot = false the root Entry is removed.                           *)
ButtonContexts(rootDistance) ==
  LET frontend == {k \in 1..Len(contexts) :
                     /\ contexts[k].path = FrontendReadme
                     /\ contexts[k].distance = 3
                     /\ contexts[k].relevance = "parent"}
      root == {k \in 1..Len(contexts) : contexts[k].path = RootReadme}
  IN /\ Cardinality(frontend) = 1
     /\ request.includeRoot =>
          /\ Len(contexts) = 2
          /\ \E k \in root : /\ contexts[k].distance = rootDistance
                             /\ contexts[k].relevance = "root"
     /\ ~request.includeRoot => (Len(contexts) = 1 /\ root = {})

\* as claimed: the root Entry at distance 3
C16_ButtonRootAtThree ==
  (Resolved /\ request.targetPath = ButtonPath) => ButtonContexts(3)

\* the root Entry at distance 5, the number of segments of
\* apps/frontend/src/components/atoms
C16_ButtonRootAtFive ==
  (Resolved /\ request.targetPath = ButtonPath) => ButtonContexts(5)

\* the Button path has been resolved with the root Entry included
C16_Witness ==
  /\ Resolved
  /\ request.targetPath = ButtonPath
  /\ request.includeRoot
  /\ Len(contexts) = 2
  /\ contexts[1].path = FrontendReadme
  /\ contexts[2].path = RootReadme

----------------------------------------------------------------------------
(* C17: distance arithmetic.  The distance of a root Entry is the number of *)
(* segments of the target's directory, 0 for a target at the root; that of  *)
(* an Entry in the target's directory is 0; that of an Entry above the      *)
(* target's directory is the number of segments between the two; no         *)
(* distance is negative.                                                    *)
C17_DistanceArithmetic ==
  Resolved =>
    \A k \in 1..Len(contexts) :
      LET d == DirOf(contexts[k].path)
          n == contexts[k].distance
      IN /\ n >= 0
         /\ d = <<>> => n = Len(TargetDir)
         /\ (d # <<>> /\ d = TargetDir) => n = 0
         /\ (d # <<>> /\ ProperAncestor(d, TargetDir)) =>
              n = Len(TargetDir) - Len(d)

\* the answer for a file holds a root Entry, an Entry two levels above the
\* file's directory and none in between
C17_Witness ==
  /\ Resolved
  /\ HasExtension(request.targetPath)
  /\ Len(TargetDir) = 3
  /\ \E j, k \in 1..Len(contexts) :
       /\ DirOf(contexts[j].path) = <<>>
       /\ contexts[j].distance = 3
       /\ Len(DirOf(contexts[k].path)) = 1
       /\ contexts[k].distance = 2

----------------------------------------------------------------------------
(* C18: distance monotonicity.  For every Entry of the answer, a target one *)
(* directory level below the target's directory, given as that directory or *)
(* as a file in it, is at no smaller a distance from the Entry.             *)
EntryOf(path) == index[CHOOSE i \in 1..Len(index) : index[i].path = path]

OneLevelDeeper ==
  UNION { { TargetDir \o <<seg>>, TargetDir \o <<seg, SegFile>> } :
            seg \in {SegA, SegB, SegFile} }

C18_DistanceMonotone ==
  Resolved =>
    \A k \in 1..Len(contexts) :
      \A deeper \in OneLevelDeeper :
        calculateDistance(deeper, EntryOf(contexts[k].path))
          >= contexts[k].distance

\* the answer holds an Entry of a directory other than the root that lies
\* one level farther from the target when the target moves into a subdirectory
C18_Witness ==
  /\ Resolved
  /\ \E k \in 1..Len(contexts) :
       /\ DirOf(contexts[k].path) # <<>>
       /\ calculateDistance(TargetDir \o <<SegA, SegFile>>,
                            EntryOf(contexts[k].path))
            = contexts[k].distance + 1

----------------------------------------------------------------------------
(* C19: relevance classification.  A Context has relevance root exactly     *)
(* when the directory of its Entry is the project root, direct exactly when *)
(* that directory is not the root and is the target's directory, and parent *)
(* otherwise; the Entry of a Context with relevance parent lies in a proper *)
(* ancestor of the target's directory.                                      *)
C19_RelevanceClasses ==
  Resolved =>
    \A k \in 1..Len(contexts) :
      LET d == DirOf(contexts[k].path)
          r == contexts[k].relevance
      IN /\ r \in {"root", "direct", "parent"}
         /\ r = "root" <=> d = <<>>
         /\ r = "direct" <=> (d # <<>> /\ d = TargetDir)
         /\ r = "parent" <=> (d # <<>> /\ d # TargetDir)
         /\ r = "parent" => ProperAncestor(d, TargetDir)

\* the answer for a target at the project root holds the root Entry, and
\* the index an Entry that is not in the answer
C19_Witness ==
  /\ Resolved
  /\ TargetDir = <<>>
  /\ Len(contexts) = 1
  /\ contexts[1].relevance = "root"
  /\ Len(index) = 2

----------------------------------------------------------------------------
(* C20: includeRoot = false removes exactly the root Entries, those of      *)
(* level 0: the answer holds no Context of the root directory, and it is    *)
(* the answer for includeRoot = true without its root Contexts, the others  *)
(* in the same order with the same distance and relevance.                  *)
NotRoot(context) == EntryOf(context.path).level # 0

C20_IncludeRootFalse ==
  /\ \A i \in 1..Len(index) : index[i].level = 0 <=> DirOf(index[i].path) = <<>>
  /\ (Resolved /\ ~request.includeRoot) =>
       /\ \A k \in 1..Len(contexts) :
            /\ DirOf(contexts[k].path) # <<>>
            /\ contexts[k].relevance # "root"
       /\ contexts = SelectSeq(getContextForPath(index, request.targetPath, TRUE,
                                                 disk), NotRoot)

\* an answer without the root Entry of the index, with another Entry in it
C20_Witness ==
  /\ Resolved
  /\ ~request.includeRoot
  /\ \E i \in 1..Len(index) : index[i].level = 0
  /\ Len(contexts) >= 1
  /\ Len(getContextForPath(index, request.targetPath, TRUE, disk))
       = Len(contexts) + 1

----------------------------------------------------------------------------
(* C21: the target is classified by its path alone.  A target whose last    *)
(* segment has no file-type-looking suffix is its own directory, any other  *)
(* target lies in its parent directory, and matching, relevance and         *)
(* distance all use that directory, whether the disk holds nothing, a file  *)
(* or a directory at the target path.                                       *)
FileTypeSuffix(seg) ==
  LET dots == {i \in 1..Len(seg) : seg[i] = DOT}
  IN dots # {} /\ (CHOOSE i \in dots : \A j \in dots : j <= i) < Len(seg)

ClassifiedDir(path) ==
  IF path = <<>> THEN <<>>
  ELSE IF FileTypeSuffix(path[Len(path)]) THEN SubSeq(path, 1, Len(path) - 1)
  ELSE path

C21_ClassifiedByPathOnly ==
  Resolved =>
    LET D == ClassifiedDir(request.targetPath)
    IN /\ \A i \in 1..Len(index) :
            LET d == DirOf(index[i].path)
            IN ContextsOf(index[i].path) # {} <=>
                 /\ d = <<>> \/ d = D \/ ProperAncestor(d, D)
                 /\ ~(d = <<>> /\ ~request.includeRoot)
       /\ \A k \in 1..Len(contexts) :
            LET d == DirOf(contexts[k].path)
            IN /\ contexts[k].relevance =
                    (IF d = <<>> THEN "root" ELSE IF d = D THEN "direct" ELSE "parent")
               /\ contexts[k].distance = Len(D) - Len(d)

\* a file that does not exist yet has been resolved to the Entry of its
\* directory
C21_Witness ==
  /\ Resolved
  /\ request.targetPath \notin DOMAIN disk
  /\ FileTypeSuffix(request.targetPath[Len(request.targetPath)])
  /\ \E k \in 1..Len(contexts) :
       /\ contexts[k].relevance = "direct"
       /\ contexts[k].distance = 0
       /\ DirOf(contexts[k].path) = DirOf(request.targetPath)

----------------------------------------------------------------------------
(* C22: a cached body is what resolving returns *)

\* the body that storage gives for an Entry at resolve time
ReadNow(path) == IF CanRead(disk, path) THEN disk[path].text ELSE CouldNotRead(path)

\* C22: every step that resolves a path returns, for each Entry that
\* carries a cached body (an empty one included), exactly that cached body,
\* whatever the document holds by then; an Entry with no cached body is
\* read at that moment, and a failed read gives the sentinel for that
\* Context only.
C22_CachedBodyReturned ==
  [][Resolve =>
       \A k \in 1..Len(contexts') :
         LET e == EntryOf(contexts'[k].path)
         IN contexts'[k].content =
              (IF "content" \in DOMAIN e THEN e.content ELSE ReadNow(e.path))]_vars

----------------------------------------------------------------------------
(* C23: resolving many paths is resolving each path *)

\* C23: every step that resolves a list of paths returns a map with
\* exactly one key per distinct path of the list, and the value of each
\* path is what resolving that path alone gives with includeRoot = true,
\* whatever the other paths of the list and their order.
C23_PerPathIndependent ==
  [][ResolveMany =>
       /\ DOMAIN contexts' = {request.paths[i] : i \in 1..Len(request.paths)}
       /\ \A path \in DOMAIN contexts' :
            contexts'[path] = getContextForPath(index, path, TRUE, disk)]_vars

\* two different paths were resolved in one call and got different contexts
C23_Witness ==
  /\ ~request.pending
  /\ "paths" \in DOMAIN request
  /\ Len(request.paths) = 2
  /\ request.paths[1] # request.paths[2]
  /\ contexts[request.paths[1]] # contexts[request.paths[2]]
  /\ contexts[request.paths[2]] # <<>>

----------------------------------------------------------------------------
(* C24: the derived fields of an Entry *)

\* the segments of a directory written one after the other with "-"
\* between them
RECURSIVE Dashed(_)
Dashed(dir) ==
  IF Len(dir) = 1 THEN dir[1]
  ELSE Dashed(SubSeq(dir, 1, Len(dir) - 1)) \o <<"-">> \o dir[Len(dir)]

----------------------------------------------------------------------------
(* C25: the Index is sorted by level *)

\* C25: the Index that scan() or refresh() has made is sorted ascending by
\* level, whatever order glob found the files in, so the root Entry, when
\* there is one, is the first.
C25_IndexSortedByLevel ==
  /\ \A i, j \in 1..Len(index) : i < j => index[i].level <= index[j].level
  /\ \A i \in 1..Len(index) : DirOf(index[i].path) = <<>> => i = 1

\* a scan after an edit has made an Index of three levels, the root first
C25_Witness ==
  /\ Len(index) = 3
  /\ index[1].path = <<ReadmeName>>
  /\ index[3].level = 2
  /\ \E i \in 1..Len(index) :
       "content" \in DOMAIN index[i] /\ index[i].content = <<"x">>

----------------------------------------------------------------------------
(* C26: a scan degrades per file *)

\* the AI_README.md files on the disk
Matching == {p \in DOMAIN disk : disk[p].kind = "file" /\ p[Len(p)] = ReadmeName}

\* C26: every scan succeeds and leaves one Entry per AI_README.md on the
\* disk; when the scan caches, content is absent for exactly the files
\* that could not be read, and when caching is off content is absent for
\* every Entry.
C26_ScanDegradesPerFile ==
  [][Scan =>
       /\ {index'[i].path : i \in 1..Len(index')} = Matching
       /\ Len(index') = Cardinality(Matching)
       /\ \A i \in 1..Len(index') :
            "content" \notin DOMAIN index'[i]
              <=> (~options.cacheContent \/ ~disk[index'[i].path].readable)]_vars

\* a caching scan after an edit has made an Entry without content for an
\* unreadable file next to an Entry with the edited body
C26_Witness ==
  /\ options.cacheContent
  /\ \E i, j \in 1..Len(index) :
       /\ "content" \notin DOMAIN index[i]
       /\ ~disk[index[i].path].readable
       /\ "content" \in DOMAIN index[j]
       /\ index[j].content = <<"x">>

\* a scan with caching off after an edit has made three Entries without
\* content
C26_WitnessNoCache ==
  /\ ~options.cacheContent
  /\ Len(index) = 3
  /\ \A i \in 1..Len(index) : "content" \notin DOMAIN index[i]
  /\ \E p \in DOMAIN disk : disk[p].text = <<"x">>

----------------------------------------------------------------------------
(* C27: two concurrent calls of update() *)

\* C27: with two calls of update() in flight on one document, the stored
\* document changes only when one of the calls writes, and each write
\* stores what that call computed from the text it had read, whatever the
\* other call has written since, and reports success: the call that writes
\* last decides the final document.
C27_LastWriteWins ==
  [][/\ WriteFile => /\ file' = ApplyAll(content, operations).text
                     /\ result'.success
     /\ RivalWrite => /\ file' = ApplyAll(rival.content, rival.operations).text
                      /\ rival'.result.success
     /\ file' # file => WriteFile \/ RivalWrite]_vars

\* both calls read the same text and both report success, the second
\* caller wrote last, and the change of the first caller is lost: the
\* stored document is what the second caller alone would have made
C27_Witness ==
  /\ pc = "Committed" /\ result.success
  /\ rival.pc = "Committed" /\ rival.result.success
  /\ calls = 1
  /\ content = rival.content
  /\ updatedContent # content
  /\ file = ApplyAll(rival.content, rival.operations).text
  /\ file # ApplyAll(updatedContent, rival.operations).text
  /\ file # ApplyAll(rival.updatedContent, operations).text

----------------------------------------------------------------------------
(* C28: change accounting *)

\* C28: for every operation that succeeds, of every kind, the number of
\* lines of the document after the operation minus the number before it
\* is the reported linesAdded minus linesRemoved, and neither count is
\* negative.
C28_ChangeAccounting ==
  [][ApplyNext =>
       LET change == changes'[Len(changes')]
       IN /\ LineCount(updatedContent') - LineCount(updatedContent)
               = change.linesAdded - change.linesRemoved
          /\ change.linesAdded >= 0
          /\ change.linesRemoved >= 0]_vars

\* the accounting of every successful operation whose content holds no
\* replacement pattern
C28_LiteralAccounting ==
  [][ApplyNext /\ (\A n \in 1..Len(operations[idx + 1].content) :
                    operations[idx + 1].content[n] # DOLLAR) =>
       LET change == changes'[Len(changes')]
       IN /\ LineCount(updatedContent') - LineCount(updatedContent)
               = change.linesAdded - change.linesRemoved
          /\ change.linesAdded >= 0
          /\ change.linesRemoved >= 0]_vars

----------------------------------------------------------------------------
(* C30: replace changes the first occurrence only *)

\* C30: a committed replace on a document that holds searchText more than
\* once leaves the text in front of the first occurrence and all the text
\* behind that occurrence, later occurrences included, as they were; with
\* a content free of '$' the document is that text with the content in
\* place of the first occurrence; the reported counts are those of one
\* substitution, the lines of the content added and the lines of
\* searchText removed.
C30_FirstOccurrenceOnly ==
  (/\ pc = "Committed"
   /\ SingleReplace
   /\ Occurrences(content, operations[1].searchText) >= 2) =>
    LET S == operations[1].searchText
        C == operations[1].content
        p == IndexOf(content, S)
        before == SubSeq(content, 1, p - 1)
        after == Drop(content, p + Len(S))
    IN /\ Len(file) >= Len(before) + Len(after)
       /\ SubSeq(file, 1, Len(before)) = before
       /\ Drop(file, Len(file) - Len(after) + 1) = after
       /\ ~Includes(C, <<DOLLAR>>) => file = before \o C \o after
       /\ result.changes[1].linesAdded = LineCount(C)
       /\ result.changes[1].linesRemoved = LineCount(S)

\* a committed replace that left a later occurrence of the search text in
\* place behind the changed one
C30_Witness ==
  /\ pc = "Committed"
  /\ SingleReplace
  /\ Occurrences(content, operations[1].searchText) >= 2
  /\ ~Includes(operations[1].content, operations[1].searchText)
  /\ ~Includes(operations[1].content, <<DOLLAR>>)
  /\ operations[1].content # <<>>
  /\ Includes(file, operations[1].searchText)
  /\ IndexOf(file, operations[1].searchText) > IndexOf(content, operations[1].searchText)

----------------------------------------------------------------------------
(* C29: only covering Entries are returned *)

\* C29: with at most one Entry per directory, every returned Context
\* belongs to an Entry at the root, in the target's directory or in a
\* proper ancestor of it, no two returned Contexts have the same
\* distance, and a root Context that is returned with others is the last.
C29_OnlyCoveringEntries ==
  Resolved =>
    /\ \A k \in 1..Len(contexts) :
         LET d == DirOf(contexts[k].path)
         IN d = <<>> \/ d = TargetDir \/ ProperAncestor(d, TargetDir)
    /\ \A k, n \in 1..Len(contexts) :
         k # n => contexts[k].distance # contexts[n].distance
    /\ \A k \in 1..Len(contexts) :
         DirOf(contexts[k].path) = <<>> => k = Len(contexts)

====
